---- MODULE Spec2Model ----
(***************************************************************************)
(* Vertex-centric BSP engine (Pregel) with the two vertex programs of the  *)
(* notebooks: EpidemicVertex and SocialVertex.  The update rules, the      *)
(* stats functions and the two main functions are translated from the      *)
(* notebooks; the engine (class Pregel / class Vertex, module pregel) is   *)
(* not among the notebooks and is modelled from the design document.       *)
(***************************************************************************)
EXTENDS Integers, Sequences, FiniteSets, TLC

\* ------------------------------------------------------------------ bounds
NumVertices == 3      \* vertices have ids 0 .. NumVertices-1
MaxEdges    == 2      \* graphs with at most this many out-edges in total
MaxNSteps   == 4      \* nsteps is drawn from 0 .. MaxNSteps
MaxTd       == 2      \* td is drawn from 1 .. MaxTd
MaxRuns     == 2      \* run() is called at most this many times

\* The ids the main functions give their vertices: range(n).
Ids == 0 .. (NumVertices - 1)

\* A probability parameter (p, a, sp) is 0.0, 1.0 or strictly in between.
Probabilities == {"0.0", "between", "1.0"}

\* The possible outcomes of `random.random() < pr`; random.random() is in
\* [0.0, 1.0), so the test never succeeds for 0.0 and always for 1.0.
RandomLess(pr) ==
    IF pr = "0.0" THEN {FALSE}
    ELSE IF pr = "1.0" THEN {TRUE}
    ELSE BOOLEAN

\* One outcome of `random.random() < pr` per element of a list of length k.
Trials(k, pr) == [1 .. k -> RandomLess(pr)]

VARIABLES
    variant,     \* "epidemic" or "social": which notebook is running
    nsteps,      \* notebook parameter: how many time-steps to run
    td,          \* epidemic parameter: time-steps from infection to death
    i,           \* number of vertices initially infected / initially on M
    p,           \* epidemic parameter: infection probability per message
    a,           \* social parameter: activity
    sp,          \* social parameter: switch probability
    vertices,    \* id -> Vertex object (record of its fields)
    data,        \* Pregel.data: the stats tuples appended so far
    pc,          \* position of run(): check, superstep, redistribute,
                 \* stats, increment, done; aborted after a failed update;
                 \* construct, rejected while the object is constructed
    pending,     \* active set of the round whose update is still to come
    runs,        \* number of calls of run() so far
    ceilingActive \* history: some vertex was active when round nsteps began

\* The positions of the vertex list.
V == DOMAIN vertices

vars == <<variant, nsteps, td, i, p, a, sp, vertices, data, pc, pending,
          runs, ceilingActive>>

params == <<variant, nsteps, td, i, p, a, sp>>

\* ----------------------------------------------------------- sequences
RECURSIVE SelectIdx(_, _, _)
\* The sub-list of s at the positions k..Len(s) whose flag in sel is TRUE
\* (a list comprehension with an `if`).
SelectIdx(s, sel, k) ==
    IF k > Len(s) THEN <<>>
    ELSE (IF sel[k] THEN <<s[k]>> ELSE <<>>) \o SelectIdx(s, sel, k + 1)

RECURSIVE CountMsg(_, _, _)
\* Number of the messages at the positions k..Len(s) of s whose payload is
\* msg.
CountMsg(s, msg, k) ==
    IF k > Len(s) THEN 0
    ELSE (IF s[k][3] = msg THEN 1 ELSE 0) + CountMsg(s, msg, k + 1)

RECURSIVE SortedSeq(_)
\* The elements of a set of ids as a list in increasing order.
SortedSeq(S) ==
    IF S = {} THEN <<>>
    ELSE LET m == CHOOSE x \in S : \A y \in S : x <= y
         IN <<m>> \o SortedSeq(S \ {m})

RECURSIVE CountVertices(_, _)
\* sum(test(v) for v in vertices) over the ids from k on; tests[v]
\* is the outcome of the test for vertex v.
CountVertices(tests, k) ==
    IF k \notin DOMAIN tests THEN 0
    ELSE (IF tests[k] THEN 1 ELSE 0) + CountVertices(tests, k + 1)

\* ----------------------------------------------------------- messages
\* An outgoing message is the tuple (v, w, msg) of the notebooks: destination
\* id, weight, payload.  The model adds a fourth component, the superstep in
\* which the message was emitted; it is a history stamp that no update rule
\* and no stats function reads.
Message(dest, w, msg, sent) == <<dest, w, msg, sent>>

\* ------------------------------------------------------- EpidemicVertex
\* EpidemicVertex.update whose "already dead" branch sets active = True.
EpidemicUpdateReactivate(self, trials) ==
    IF self.superstep = 0 THEN
        IF self.id < i THEN [self EXCEPT !.value = 1]
        ELSE [self EXCEPT !.value = 0]
    ELSE IF self.superstep < nsteps THEN
        IF self.value = -1 THEN [self EXCEPT !.active = TRUE]
        ELSE IF self.value > 0 THEN
            IF self.value <= td THEN
                [self EXCEPT
                   !.value = self.value + 1,
                   !.outgoing_messages =
                       [k \in 1 .. Len(self.out_vertices) |->
                           <<self.out_vertices[k], 1, "sneeze",
                             self.superstep>>]]
            ELSE [self EXCEPT !.value = -1, !.active = FALSE]
        ELSE
            IF \E k \in 1 .. Len(self.incoming_messages) : trials[k]
            THEN [self EXCEPT !.value = 1]
            ELSE self
    ELSE [self EXCEPT !.active = FALSE]

\* EpidemicVertex.update whose "stay infected" branch counts the time since
\* infection in self.superstep instead of self.value.
EpidemicUpdateWritesSuperstep(self, trials) ==
    IF self.superstep = 0 THEN
        IF self.id < i THEN [self EXCEPT !.value = 1]
        ELSE [self EXCEPT !.value = 0]
    ELSE IF self.superstep < nsteps THEN
        IF self.value = -1 THEN [self EXCEPT !.active = FALSE]
        ELSE IF self.value > 0 THEN
            IF self.value <= td THEN
                [self EXCEPT
                   !.superstep = self.superstep + 1,
                   !.outgoing_messages =
                       [k \in 1 .. Len(self.out_vertices) |->
                           <<self.out_vertices[k], 1, "sneeze",
                             self.superstep>>]]
            ELSE [self EXCEPT !.value = -1, !.active = FALSE]
        ELSE
            IF \E k \in 1 .. Len(self.incoming_messages) : trials[k]
            THEN [self EXCEPT !.value = 1]
            ELSE self
    ELSE [self EXCEPT !.active = FALSE]

\* EpidemicVertex.update with the number of successful trials as the value
\* of a newly infected vertex.
EpidemicUpdateCountsTrials(self, trials) ==
    IF self.superstep = 0 THEN
        IF self.id < i THEN [self EXCEPT !.value = 1]
        ELSE [self EXCEPT !.value = 0]
    ELSE IF self.superstep < nsteps THEN
        IF self.value = -1 THEN [self EXCEPT !.active = FALSE]
        ELSE IF self.value > 0 THEN
            IF self.value <= td THEN
                [self EXCEPT
                   !.value = self.value + 1,
                   !.outgoing_messages =
                       [k \in 1 .. Len(self.out_vertices) |->
                           Message(self.out_vertices[k], 1, "sneeze",
                                   self.superstep)]]
            ELSE [self EXCEPT !.value = -1, !.active = FALSE]
        ELSE
            [self EXCEPT !.value =
                Cardinality({k \in 1 .. Len(self.incoming_messages) :
                                trials[k]})]
    ELSE [self EXCEPT !.active = FALSE]

\* EpidemicVertex.update with the infection message emitted once more in
\* the round of death.
EpidemicUpdateEmitsAtDeath(self, trials) ==
    IF self.superstep = 0 THEN
        IF self.id < i THEN [self EXCEPT !.value = 1]
        ELSE [self EXCEPT !.value = 0]
    ELSE IF self.superstep < nsteps THEN
        IF self.value = -1 THEN [self EXCEPT !.active = FALSE]
        ELSE IF self.value > 0 THEN
            IF self.value <= td THEN
                [self EXCEPT
                   !.value = self.value + 1,
                   !.outgoing_messages =
                       [k \in 1 .. Len(self.out_vertices) |->
                           Message(self.out_vertices[k], 1, "sneeze",
                                   self.superstep)]]
            ELSE [self EXCEPT
                   !.value = -1,
                   !.active = FALSE,
                   !.outgoing_messages =
                       [k \in 1 .. Len(self.out_vertices) |->
                           Message(self.out_vertices[k], 1, "sneeze",
                                   self.superstep)]]
        ELSE
            IF \E k \in 1 .. Len(self.incoming_messages) : trials[k]
            THEN [self EXCEPT !.value = 1]
            ELSE self
    ELSE [self EXCEPT !.active = FALSE]

\* EpidemicVertex.update in which a healthy vertex that received nothing
\* votes to halt.
EpidemicUpdateIdleHalts(self, trials) ==
    IF self.superstep = 0 THEN
        IF self.id < i THEN [self EXCEPT !.value = 1]
        ELSE [self EXCEPT !.value = 0]
    ELSE IF self.superstep < nsteps THEN
        IF self.value = -1 THEN [self EXCEPT !.active = FALSE]
        ELSE IF self.value > 0 THEN
            IF self.value <= td THEN
                [self EXCEPT
                   !.value = self.value + 1,
                   !.outgoing_messages =
                       [k \in 1 .. Len(self.out_vertices) |->
                           Message(self.out_vertices[k], 1, "sneeze",
                                   self.superstep)]]
            ELSE [self EXCEPT !.value = -1, !.active = FALSE]
        ELSE
            IF self.incoming_messages = <<>>
            THEN [self EXCEPT !.active = FALSE]
            ELSE IF \E k \in 1 .. Len(self.incoming_messages) : trials[k]
            THEN [self EXCEPT !.value = 1]
            ELSE self
    ELSE [self EXCEPT !.active = FALSE]

\* EpidemicVertex.update whose die branch leaves the vertex active.
EpidemicUpdateDeadStaysActive(self, trials) ==
    IF self.superstep = 0 THEN
        IF self.id < i THEN [self EXCEPT !.value = 1]
        ELSE [self EXCEPT !.value = 0]
    ELSE IF self.superstep < nsteps THEN
        IF self.value = -1 THEN [self EXCEPT !.active = FALSE]
        ELSE IF self.value > 0 THEN
            IF self.value <= td THEN
                [self EXCEPT
                   !.value = self.value + 1,
                   !.outgoing_messages =
                       [k \in 1 .. Len(self.out_vertices) |->
                           Message(self.out_vertices[k], 1, "sneeze",
                                   self.superstep)]]
            ELSE [self EXCEPT !.value = -1]
        ELSE
            IF \E k \in 1 .. Len(self.incoming_messages) : trials[k]
            THEN [self EXCEPT !.value = 1]
            ELSE self
    ELSE [self EXCEPT !.active = FALSE]

\* EpidemicVertex.update emitting to the first out-vertex only.
EpidemicUpdateEmitsToFirst(self, trials) ==
    IF self.superstep = 0 THEN
        IF self.id < i THEN [self EXCEPT !.value = 1]
        ELSE [self EXCEPT !.value = 0]
    ELSE IF self.superstep < nsteps THEN
        IF self.value = -1 THEN [self EXCEPT !.active = FALSE]
        ELSE IF self.value > 0 THEN
            IF self.value <= td THEN
                [self EXCEPT
                   !.value = self.value + 1,
                   !.outgoing_messages =
                       IF self.out_vertices = <<>> THEN <<>>
                       ELSE <<Message(self.out_vertices[1], 1, "sneeze",
                                      self.superstep)>>]
            ELSE [self EXCEPT !.value = -1, !.active = FALSE]
        ELSE
            IF \E k \in 1 .. Len(self.incoming_messages) : trials[k]
            THEN [self EXCEPT !.value = 1]
            ELSE self
    ELSE [self EXCEPT !.active = FALSE]

\* EpidemicVertex.update with `self.value < td` as the test for staying
\* infected.
EpidemicUpdateDiesEarly(self, trials) ==
    IF self.superstep = 0 THEN
        IF self.id < i THEN [self EXCEPT !.value = 1]
        ELSE [self EXCEPT !.value = 0]
    ELSE IF self.superstep < nsteps THEN
        IF self.value = -1 THEN [self EXCEPT !.active = FALSE]
        ELSE IF self.value > 0 THEN
            IF self.value < td THEN
                [self EXCEPT
                   !.value = self.value + 1,
                   !.outgoing_messages =
                       [k \in 1 .. Len(self.out_vertices) |->
                           Message(self.out_vertices[k], 1, "sneeze",
                                   self.superstep)]]
            ELSE [self EXCEPT !.value = -1, !.active = FALSE]
        ELSE
            IF \E k \in 1 .. Len(self.incoming_messages) : trials[k]
            THEN [self EXCEPT !.value = 1]
            ELSE self
    ELSE [self EXCEPT !.active = FALSE]

\* EpidemicVertex.update; trials[k] is the outcome of `random.random() < p`
\* for the k-th incoming message.
EpidemicUpdate(self, trials) ==
    IF self.superstep = 0 THEN
        IF self.id < i THEN [self EXCEPT !.value = 1]
        ELSE [self EXCEPT !.value = 0]
    ELSE IF self.superstep < nsteps THEN
        IF self.value = -1 THEN [self EXCEPT !.active = FALSE]
        ELSE IF self.value > 0 THEN
            IF self.value <= td THEN
                [self EXCEPT
                   !.value = self.value + 1,
                   !.outgoing_messages =
                       [k \in 1 .. Len(self.out_vertices) |->
                           Message(self.out_vertices[k], 1, "sneeze",
                                   self.superstep)]]
            ELSE [self EXCEPT !.value = -1, !.active = FALSE]
        ELSE
            IF \E k \in 1 .. Len(self.incoming_messages) : trials[k]
            THEN [self EXCEPT !.value = 1]
            ELSE self
    ELSE [self EXCEPT !.active = FALSE]

\* A call of update that also writes the value of the healthy out-vertices
\* of an infected vertex, instead of leaving the infection to the messages.
EpidemicUpdateCallInfectsDirectly(vs, v, trials) ==
    [u \in V |->
        IF u = v THEN EpidemicUpdate(vs[v], trials)
        ELSE IF /\ vs[v].superstep > 0
                /\ vs[v].value > 0
                /\ \E k \in 1 .. Len(vs[v].out_vertices) :
                       vs[v].out_vertices[k] = u
                /\ vs[u].value = 0
             THEN [vs[u] EXCEPT !.value = 1]
             ELSE vs[u]]

\* A call of update in which a healthy vertex looks at the value of its
\* out-vertices instead of its incoming messages.
EpidemicUpdateCallReadsNeighbours(vs, v, trials) ==
    LET self == vs[v]
        seen == \E k \in 1 .. Len(self.out_vertices) :
                    vs[self.out_vertices[k]].value > 0
    IN IF /\ self.superstep > 0
          /\ self.superstep < nsteps
          /\ self.value = 0
          /\ seen
       THEN [vs EXCEPT ![v] = [self EXCEPT !.value = 1]]
       ELSE [vs EXCEPT ![v] = EpidemicUpdate(self, trials)]

\* The vertex objects after the call vs[v].update(): the method assigns
\* attributes of self only, no attribute of an object in self.out_vertices.
EpidemicUpdateCall(vs, v, trials) ==
    [vs EXCEPT ![v] = EpidemicUpdate(vs[v], trials)]

IsAlive(v) == v.value >= 0

IsInfected(v) == v.value > 0

\* epidemic_stats that reports the number of the next round.
EpidemicStatsNextRound(vs) ==
    LET superstep == vs[0].superstep + 1
        n == Cardinality(DOMAIN vs)
    IN <<superstep, <<CountVertices([v \in V |-> IsAlive(vs[v])], 0), n>>,
                    <<CountVertices([v \in V |-> IsInfected(vs[v])], 0), n>>>>

\* epidemic_stats with the two tests exchanged: palive from value > 0,
\* pinfected from value >= 0.
EpidemicStatsSwapped(vs) ==
    LET superstep == vs[0].superstep
        n == Cardinality(DOMAIN vs)
    IN <<superstep, <<CountVertices([v \in V |-> IsInfected(vs[v])], 0), n>>,
                    <<CountVertices([v \in V |-> IsAlive(vs[v])], 0), n>>>>

\* epidemic_stats that counts only the vertices that are still active.
EpidemicStatsActiveOnly(vs) ==
    LET superstep == vs[0].superstep
        n == Cardinality(DOMAIN vs)
    IN <<superstep,
         <<CountVertices([v \in V |-> IsAlive(vs[v]) /\ vs[v].active], 0), n>>,
         <<CountVertices([v \in V |-> IsInfected(vs[v]) /\ vs[v].active], 0),
           n>>>>

\* epidemic_stats: (superstep, palive, pinfected); a proportion count/float(n)
\* is kept as the pair <<count, n>>.
EpidemicStats(vs) ==
    LET superstep == vs[0].superstep
        n == Cardinality(DOMAIN vs)
    IN <<superstep, <<CountVertices([v \in V |-> IsAlive(vs[v])], 0), n>>,
                    <<CountVertices([v \in V |-> IsInfected(vs[v])], 0), n>>>>

\* The vertices as a call of epidemic_stats leaves them: the function reads
\* superstep and value and assigns no attribute.
EpidemicStatsVertices(vs) == vs

\* --------------------------------------------------------- SocialVertex
\* switch(f, m); sw is the outcome of `random.random() < sp`.
\* switch answering True on a tie as well.
switchOnTie(f, m, sw) ==
    IF m >= f THEN (IF sw THEN TRUE ELSE FALSE)
    ELSE FALSE

\* switch asking for a margin of two M messages over the F messages.
switchMarginTwo(f, m, sw) ==
    IF m > f + 1 THEN (IF sw THEN TRUE ELSE FALSE)
    ELSE FALSE

switch(f, m, sw) ==
    IF m > f THEN (IF sw THEN TRUE ELSE FALSE)
    ELSE FALSE

\* A counting loop whose last branch is `pass` instead of `raise`.
SocialUpdateNeverRaises(self) == FALSE

\* SocialVertex.update raises ValueError: a vertex below the ceiling that
\* has not switched counts its incoming messages and meets a payload that
\* is neither "F" nor "M".  The raise comes before any assignment to self.
SocialUpdateRaises(self) ==
    /\ self.superstep < nsteps
    /\ self.value # "M"
    /\ \E k \in 1 .. Len(self.incoming_messages) :
          self.incoming_messages[k][3] \notin {"F", "M"}

\* SocialVertex.update in which a vertex that is on M votes to halt.
SocialUpdateHaltsOnM(self, sw, sel) ==
    IF self.superstep < nsteps THEN
        LET f == CountMsg(self.incoming_messages, "F", 1)
            m == CountMsg(self.incoming_messages, "M", 1)
            value == IF self.value = "M" THEN "M"
                     ELSE IF switch(f, m, sw) THEN "M"
                     ELSE self.value
            all == [k \in 1 .. Len(self.out_vertices) |->
                       Message(self.out_vertices[k], 1, value,
                               self.superstep)]
        IN [self EXCEPT !.value = value,
                        !.active = (self.value # "M"),
                        !.outgoing_messages = SelectIdx(all, sel, 1)]
    ELSE [self EXCEPT !.active = FALSE]

\* SocialVertex.update sending the label the vertex had before the switch
\* decision of the round.
SocialUpdateSendsOldLabel(self, sw, sel) ==
    IF self.superstep < nsteps THEN
        LET f == CountMsg(self.incoming_messages, "F", 1)
            m == CountMsg(self.incoming_messages, "M", 1)
            value == IF self.value = "M" THEN "M"
                     ELSE IF switch(f, m, sw) THEN "M"
                     ELSE self.value
            all == [k \in 1 .. Len(self.out_vertices) |->
                       Message(self.out_vertices[k], 1, self.value,
                               self.superstep)]
        IN [self EXCEPT !.value = value,
                        !.outgoing_messages = SelectIdx(all, sel, 1)]
    ELSE [self EXCEPT !.active = FALSE]

\* SocialVertex.update in which a vertex on M counts its messages too and
\* goes back to F when it sees more F than M.
SocialUpdateSwitchesBack(self, sw, sel) ==
    IF self.superstep < nsteps THEN
        LET f == CountMsg(self.incoming_messages, "F", 1)
            m == CountMsg(self.incoming_messages, "M", 1)
            value == IF self.value = "M"
                     THEN (IF switch(m, f, sw) THEN "F" ELSE "M")
                     ELSE IF switch(f, m, sw) THEN "M"
                     ELSE self.value
            all == [k \in 1 .. Len(self.out_vertices) |->
                       Message(self.out_vertices[k], 1, value,
                               self.superstep)]
        IN [self EXCEPT !.value = value,
                        !.outgoing_messages = SelectIdx(all, sel, 1)]
    ELSE [self EXCEPT !.active = FALSE]

\* SocialVertex.update; sw is the outcome of the random test inside switch,
\* sel[k] the outcome of `random.random() < a` for the k-th out-vertex.
SocialUpdate(self, sw, sel) ==
    IF self.superstep < nsteps THEN
        LET f == CountMsg(self.incoming_messages, "F", 1)
            m == CountMsg(self.incoming_messages, "M", 1)
            value == IF self.value = "M" THEN "M"
                     ELSE IF switch(f, m, sw) THEN "M"
                     ELSE self.value
            all == [k \in 1 .. Len(self.out_vertices) |->
                       Message(self.out_vertices[k], 1, value,
                               self.superstep)]
        IN [self EXCEPT !.value = value,
                        !.outgoing_messages = SelectIdx(all, sel, 1)]
    ELSE [self EXCEPT !.active = FALSE]

\* The vertex objects after the call vs[v].update(): the method assigns
\* attributes of self only.
SocialUpdateCall(vs, v, sw, sel) ==
    [vs EXCEPT ![v] = SocialUpdate(vs[v], sw, sel)]

IsOnF(v) == v.value = "F"

IsOnM(v) == v.value = "M"

\* social_stats that reports the number of the next round.
SocialStatsNextRound(vs) ==
    LET superstep == vs[0].superstep + 1
        n == Cardinality(DOMAIN vs)
    IN <<superstep, <<CountVertices([v \in V |-> IsOnF(vs[v])], 0), n>>,
                    <<CountVertices([v \in V |-> IsOnM(vs[v])], 0), n>>>>

\* social_stats: (superstep, pF, pM).
SocialStats(vs) ==
    LET superstep == vs[0].superstep
        n == Cardinality(DOMAIN vs)
    IN <<superstep, <<CountVertices([v \in V |-> IsOnF(vs[v])], 0), n>>,
                    <<CountVertices([v \in V |-> IsOnM(vs[v])], 0), n>>>>

\* The vertices as a call of social_stats leaves them: the function reads
\* superstep and value and assigns no attribute.
SocialStatsVertices(vs) == vs

\* ------------------------------------------------------- construction
\* Vertex.__init__(id, value, out_vertices, ...): empty message buffers,
\* active, superstep 0.
Vertex(id, value, out_vertices) ==
    [id |-> id, value |-> value, out_vertices |-> out_vertices,
     incoming_messages |-> <<>>, outgoing_messages |-> <<>>,
     active |-> TRUE, superstep |-> 0]

\* Out-edges <<from, to>> without self-loops.
Edges == {e \in Ids \X Ids : e[1] # e[2]}

\* create_edges: any set of out-edges between different vertices.
Graphs == {g \in SUBSET Edges : Cardinality(g) <= MaxEdges}

\* A NetworkX Graph G: G.neighbors makes each edge of G an out-edge in both
\* directions.
UndirectedGraphs == {g \in Graphs : \A e \in g : <<e[2], e[1]>> \in g}

OutVertices(g, v) == SortedSeq({u \in Ids : <<v, u>> \in g})

\* The value EpidemicVertex objects are constructed with: the empty list [].
\* It is no number; the model keeps it as a number outside the range of the
\* values the update rule writes (-1 and up).  Every vertex is active in
\* round 0, whose update overwrites it, so no comparison ever reads it
\* (see ValuesInitialised).
Unset == -2

\* epidemic_main: n vertices with value [], then create_edges.
EpidemicMain(g) == [v \in Ids |-> Vertex(v, Unset, OutVertices(g, v))]

\* social_main constructing its vertices with a label that is neither F
\* nor M.
SocialMainOtherLabel(g, initial) ==
    [v \in Ids |-> Vertex(v, IF v \in initial THEN "M" ELSE "X",
                        OutVertices(g, v))]

\* social_main: all vertices on "F", the sampled ones moved to "M", the
\* out-vertices taken from the neighbours in G.
SocialMain(g, initial) ==
    [v \in Ids |-> Vertex(v, IF v \in initial THEN "M" ELSE "F",
                        OutVertices(g, v))]

Init ==
    /\ variant \in {"epidemic", "social"}
    /\ nsteps \in 0 .. MaxNSteps
    /\ i \in 0 .. NumVertices
    /\ IF variant = "epidemic"
       THEN /\ td \in 1 .. MaxTd
            /\ p \in Probabilities
            /\ a = "1.0"
            /\ sp = "1.0"
            /\ \E g \in Graphs : vertices = EpidemicMain(g)
       ELSE /\ td = 1
            /\ p = "1.0"
            /\ a \in Probabilities
            /\ sp \in Probabilities
            /\ \E g \in UndirectedGraphs :
                 \E initial \in {s \in SUBSET Ids : Cardinality(s) = i} :
                    vertices = SocialMain(g, initial)
    /\ data = <<>>
    /\ pc = "check"
    /\ pending = {}
    /\ runs = 1
    /\ ceilingActive = FALSE

\* --------------------------------------------------------------- engine
\* The active set taken to be the whole vertex set.
ActiveSetAll(vs) == V

\* Step 1: the active set.
ActiveSet(vs) == {v \in V : vs[v].active}

\* The loop test of a run() that always enters one more round.
check_active_always(vs) == TRUE

\* Step 2: the loop test of run(): is any vertex active?
check_active(vs) == \E v \in V : vs[v].active

\* Steps 1, 2: determine the active set; none active ends the run.
CheckActive ==
    /\ pc = "check"
    /\ IF ~check_active(vertices)
       THEN /\ pc' = "done"
            /\ pending' = {}
            /\ UNCHANGED ceilingActive
       ELSE /\ pc' = "superstep"
            /\ pending' = ActiveSet(vertices)
            /\ ceilingActive' =
                 (ceilingActive \/ vertices[0].superstep = nsteps)
    /\ UNCHANGED <<params, vertices, data, runs>>

\* The vertex whose update is invoked next: stable id order.
NextVertex == CHOOSE v \in pending : \A u \in pending : v <= u

\* The barrier: the redistribution begins when every vertex of the active
\* set has been updated.
AfterUpdate(left) == IF left = {} THEN "redistribute" ELSE "superstep"

\* Step 3 for an epidemic vertex.
UpdateEpidemic ==
    /\ pc = "superstep"
    /\ pending # {}
    /\ variant = "epidemic"
    /\ LET v == NextVertex
       IN \E trials \in Trials(Len(vertices[v].incoming_messages), p) :
            vertices' = EpidemicUpdateCall(vertices, v, trials)
    /\ pending' = pending \ {NextVertex}
    /\ pc' = AfterUpdate(pending \ {NextVertex})
    /\ UNCHANGED <<params, data, runs, ceilingActive>>

\* Step 3 for a social vertex.  An update that raises ends the run at once
\* (failure semantics: the run is aborted, the update is not retried).
UpdateSocial ==
    /\ pc = "superstep"
    /\ pending # {}
    /\ variant = "social"
    /\ IF SocialUpdateRaises(vertices[NextVertex])
       THEN /\ pc' = "aborted"
            /\ UNCHANGED <<vertices, pending>>
       ELSE /\ LET v == NextVertex
               IN \E sw \in RandomLess(sp) :
                    \E sel \in Trials(Len(vertices[v].out_vertices), a) :
                      vertices' = SocialUpdateCall(vertices, v, sw, sel)
            /\ pending' = pending \ {NextVertex}
            /\ pc' = AfterUpdate(pending \ {NextVertex})
    /\ UNCHANGED <<params, data, runs, ceilingActive>>

RECURSIVE Deliveries(_, _, _)
\* The messages of the outgoing buffers of the vertices from k on
\* that are addressed to u, each as (source, weight, payload).
Deliveries(vs, u, k) ==
    IF k \notin DOMAIN vs THEN <<>>
    ELSE LET out == vs[k].outgoing_messages
             mine == [j \in 1 .. Len(out) |-> out[j][1] = u]
             sel == SelectIdx(out, mine, 1)
         IN [j \in 1 .. Len(sel) |-> <<k, sel[j][2], sel[j][3], sel[j][4]>>]
            \o Deliveries(vs, u, k + 1)

\* RedistributeMessages resetting only the incoming buffers of the vertices
\* that receive something: a vertex nobody wrote to keeps its old buffer.
RedistributeMessagesKeepsUnaddressed(vs) ==
    [u \in V |-> [vs[u] EXCEPT
                    !.incoming_messages =
                        IF Deliveries(vs, u, 0) = <<>>
                        THEN vs[u].incoming_messages
                        ELSE Deliveries(vs, u, 0),
                    !.outgoing_messages = <<>>]]

\* RedistributeMessages without the reset of the incoming buffers: the new
\* deliveries are appended to what was delivered before.
RedistributeMessagesNoReset(vs) ==
    [u \in V |-> [vs[u] EXCEPT
                    !.incoming_messages =
                        vs[u].incoming_messages \o Deliveries(vs, u, 0),
                    !.outgoing_messages = <<>>]]

\* RedistributeMessages without step 5: the outgoing buffers keep their
\* messages.
RedistributeMessagesNoClear(vs) ==
    [u \in V |-> [vs[u] EXCEPT
                    !.incoming_messages = Deliveries(vs, u, 0)]]

\* Steps 4, 5: every emitted message goes to its destination's incoming
\* buffer for the next round; every outgoing buffer is cleared.
RedistributeMessages(vs) ==
    [u \in V |-> [vs[u] EXCEPT
                    !.incoming_messages = Deliveries(vs, u, 0),
                    !.outgoing_messages = <<>>]]

Redistribute ==
    /\ pc = "redistribute"
    /\ vertices' = RedistributeMessages(vertices)
    /\ pc' = "stats"
    /\ UNCHANGED <<params, data, pending, runs, ceilingActive>>

\* The configured stats_fn.
StatsFn(vs) ==
    IF variant = "epidemic" THEN EpidemicStats(vs) ELSE SocialStats(vs)

\* The vertices after the call of the configured stats_fn.
StatsFnVertices(vs) ==
    IF variant = "epidemic" THEN EpidemicStatsVertices(vs)
    ELSE SocialStatsVertices(vs)

\* Step 6: the stats collector.
CollectStats ==
    /\ pc = "stats"
    /\ data' = Append(data, StatsFn(vertices))
    /\ vertices' = StatsFnVertices(vertices)
    /\ pc' = "increment"
    /\ UNCHANGED <<params, pending, runs, ceilingActive>>

\* Step 7: the superstep counter of every vertex.
IncrementSuperstep(vs) ==
    [v \in V |-> [vs[v] EXCEPT !.superstep = vs[v].superstep + 1]]

Increment ==
    /\ pc = "increment"
    /\ vertices' = IncrementSuperstep(vertices)
    /\ pc' = "check"
    /\ UNCHANGED <<params, data, pending, runs, ceilingActive>>

\* run() is called again on the same Pregel object after it has returned.
RunAgain ==
    /\ pc = "done"
    /\ runs < MaxRuns
    /\ runs' = runs + 1
    /\ pc' = "check"
    /\ UNCHANGED <<params, vertices, data, pending, ceilingActive>>

Next ==
    \/ CheckActive
    \/ UpdateEpidemic
    \/ UpdateSocial
    \/ Redistribute
    \/ CollectStats
    \/ Increment
    \/ RunAgain

Spec == Init /\ [][Next]_vars

\* run() is a sequential loop: once called, each of its steps is taken.
\* Calling run() again is the caller's choice and carries no fairness.
RunStep ==
    \/ CheckActive
    \/ UpdateEpidemic
    \/ UpdateSocial
    \/ Redistribute
    \/ CollectStats
    \/ Increment

FairSpec == Spec /\ WF_vars(RunStep)

\* ----------------------------------------------------------- properties
\* No update after round 0 and no stats call meets the constructor's value
\* of an epidemic vertex: round 0 has overwritten it.
ValuesInitialised ==
    variant = "epidemic" =>
        \A v \in V :
            (vertices[v].superstep > 0 \/ pc \in {"redistribute", "stats"})
                => vertices[v].value # Unset

Superstep == vertices[0].superstep

Incoming(v) == vertices[v].incoming_messages

Outgoing(v) == vertices[v].outgoing_messages

\* The update of v is invoked in this step.
Invoked(v) == pc = "superstep" /\ v \in pending /\ v \notin pending'

\* Number of entries of the list s equal to x.
Occurrences(s, x) == Cardinality({k \in 1 .. Len(s) : s[k] = x})

\* The round whose emissions an incoming buffer holds: until the
\* redistribution of a round it is the round before.
DeliveredRound(v) ==
    IF pc \in {"stats", "increment"} THEN vertices[v].superstep
    ELSE vertices[v].superstep - 1

\* C1 (state part): every message in u's incoming buffer was emitted in the
\* round before the one in which u can read it, along an out-edge of its
\* source; in particular no message of the current round and no message
\* older than one round is visible to an update.
C1_OnlyLastRoundVisible ==
    \A u \in V : \A k \in 1 .. Len(Incoming(u)) :
        LET m == Incoming(u)[k]
        IN /\ m[4] = DeliveredRound(u)
           /\ m[1] \in V
           /\ \E j \in 1 .. Len(vertices[m[1]].out_vertices) :
                  vertices[m[1]].out_vertices[j] = u

\* C1 (step part): an update of v leaves the incoming buffer of every
\* vertex and the outgoing buffer of every other vertex alone, and the
\* redistribution puts every message (u, w, msg) of v's outgoing buffer
\* into u's incoming buffer as (v, w, msg), whether v is active or not.
C1_DeliveredNextRound ==
    /\ pc # "redistribute" =>
          \A u \in V : vertices'[u].incoming_messages = Incoming(u)
    /\ \A v \in V : Invoked(v) =>
          \A u \in V \ {v} : vertices'[u].outgoing_messages = Outgoing(u)
    /\ pc = "redistribute" =>
          \A v \in V : \A k \in 1 .. Len(Outgoing(v)) :
              LET m == Outgoing(v)[k]
              IN /\ m[4] = vertices[v].superstep
                 /\ Occurrences(vertices'[m[1]].incoming_messages,
                                <<v, m[2], m[3], m[4]>>)
                      = Occurrences(Outgoing(v), m)

\* C1: a message emitted by v to u in round t is in u's incoming buffer in
\* round t+1, not in round t and in no round after t+1, also when v
\* deactivates in round t.
C1_RoundDelayedDelivery ==
    [](C1_OnlyLastRoundVisible) /\ [][C1_DeliveredNextRound]_vars

\* A vertex is about to read, in round t+1, a message emitted in round t.
C1_Witness ==
    \E u \in pending :
        /\ pc = "superstep"
        /\ Len(Incoming(u)) > 0
        /\ Incoming(u)[1][4] = Superstep - 1
        /\ Superstep >= 2

RECURSIVE SumLen(_, _)
\* Total number of messages in the buffers buf[k], buf[k+1], ...
SumLen(buf, k) ==
    IF k \notin DOMAIN buf THEN 0 ELSE Len(buf[k]) + SumLen(buf, k + 1)

\* C2 (state part): once a round's redistribution is over no outgoing
\* buffer holds a message, and a vertex that has not yet been updated in
\* the current round, or has halted, has nothing left to deliver.
C2_OutgoingConsumed ==
    \A v \in V :
        (pc \notin {"superstep", "redistribute"}
           \/ v \in pending \/ ~vertices[v].active)
        => Outgoing(v) = <<>>

\* C2 (step part): the redistribution delivers as many messages as were
\* emitted, none lost and none twice, and empties the outgoing buffers.
C2_DeliveredOnce ==
    pc = "redistribute" =>
        /\ SumLen([v \in V |-> vertices'[v].incoming_messages], 0)
             = SumLen([v \in V |-> Outgoing(v)], 0)
        /\ \A v \in V : vertices'[v].outgoing_messages = <<>>

\* C2: each emission is delivered exactly once: the outgoing buffers are
\* empty after the redistribution, so a vertex that does not assign its
\* buffer again delivers nothing more.
C2_ExactlyOnce ==
    [](C2_OutgoingConsumed) /\ [][C2_DeliveredOnce]_vars

\* A vertex that emitted in an earlier round has halted, its buffer is
\* empty and a further round is about to redistribute.
C2_Witness ==
    /\ pc = "redistribute"
    /\ \E v \in V :
          /\ ~vertices[v].active
          /\ Len(vertices[v].out_vertices) > 0
          /\ Outgoing(v) = <<>>
          /\ \E u \in V : \E k \in 1 .. Len(Incoming(u)) :
                 Incoming(u)[k][1] = v

\* C3 (step part): a vertex whose active flag is false is not invoked, and
\* no update step changes its value, active flag or outgoing buffer.
C3_HaltedUntouched ==
    \A v \in V : ~vertices[v].active =>
        /\ ~Invoked(v)
        /\ v \notin pending'
        /\ pc = "superstep" =>
              /\ vertices'[v].value = vertices[v].value
              /\ vertices'[v].active = vertices[v].active
              /\ vertices'[v].outgoing_messages = Outgoing(v)

\* C3: once a vertex is inactive its update rule is not invoked in that
\* round or any later one, and no update changes its fields again.
C3_InactiveNeverInvoked == [][C3_HaltedUntouched]_vars

\* A round runs the update of some vertex while another vertex has halted.
C3_Witness ==
    /\ pc = "superstep"
    /\ pending # {}
    /\ \E v \in V : ~vertices[v].active

\* C4 (rule part): applied to a halted vertex, with any outcome of its
\* random choices, the update rule of the variant leaves active false.
C4_RuleKeepsHalted ==
    \A v \in V : ~vertices[v].active =>
        IF variant = "epidemic"
        THEN \A trials \in Trials(Len(Incoming(v)), p) :
                 ~EpidemicUpdate(vertices[v], trials).active
        ELSE \A sw \in RandomLess(sp) :
               \A sel \in Trials(Len(vertices[v].out_vertices), a) :
                 ~SocialUpdate(vertices[v], sw, sel).active

\* C4: the active flag of a vertex never changes from false to true,
\* neither by a step of the engine nor by an update rule.
C4_ActiveNeverReset ==
    /\ [][\A v \in V : ~vertices[v].active => ~vertices'[v].active]_vars
    /\ [](C4_RuleKeepsHalted)

\* A dead vertex stays halted while the run goes on into a round before
\* the ceiling.
C4_Witness ==
    /\ pc = "check"
    /\ Superstep < nsteps
    /\ \E v \in V : ~vertices[v].active
    /\ \E u \in V : vertices[u].active

\* Number of completed rounds: one stats tuple is appended per round.
CompletedRounds == IF pc = "increment" THEN Len(data) - 1 ELSE Len(data)

\* C5 (state part): all vertices hold the same superstep, which is the
\* number of completed rounds (0 at the start).
C5_SameSuperstep ==
    \A v \in V : /\ vertices[v].superstep = vertices[0].superstep
                 /\ vertices[v].superstep = CompletedRounds

\* C5 (step part): the counter changes only at the end of a round, by 1.
C5_StepByOne ==
    \A v \in V :
        vertices'[v].superstep =
            IF pc = "increment" THEN vertices[v].superstep + 1
            ELSE vertices[v].superstep

\* C5: all vertices, active or halted, hold the same superstep; it starts
\* at 0 and grows by exactly 1 per completed round.
C5_GlobalSuperstep == [](C5_SameSuperstep) /\ [][C5_StepByOne]_vars

\* Vertex 0 has halted, another vertex is active, and the stats function
\* is about to read vertices[0].superstep.
C5_Witness ==
    /\ pc = "stats"
    /\ ~vertices[0].active
    /\ \E u \in V : vertices[u].active
    /\ Superstep >= 2

\* C6 (state part): the k-th tuple has step number k-1.
C6_StepNumbers == \A k \in 1 .. Len(data) : data[k][1] = k - 1

\* C6 (step part): the result grows by one tuple at the stats call of a
\* round and does not change otherwise.
C6_OnePerRound ==
    IF pc = "stats"
    THEN Len(data') = Len(data) + 1 /\ SubSeq(data', 1, Len(data)) = data
    ELSE data' = data

\* C6: the result holds one tuple per completed superstep in round order,
\* with step numbers 0, 1, 2, ... without gap or repetition.
C6_StatsSeries == [](C6_StepNumbers) /\ [][C6_OnePerRound]_vars

\* A finished run with at least three tuples.
C6_Witness == pc = "done" /\ Len(data) >= 3

\* C7 (step part): a check that finds no active vertex returns at once.
C7_ReturnAtOnce ==
    (pc = "check" /\ \A v \in V : ~vertices[v].active) =>
        /\ pc' = "done"
        /\ vertices' = vertices
        /\ data' = data

\* C7: when every vertex is inactive at the check of the active set, run
\* returns without an update, a change of a vertex or a new stats tuple;
\* a second call of run after a finished run never enters a round.
C7_HaltIdempotent ==
    [][C7_ReturnAtOnce]_vars /\ [](runs > 1 => pc \in {"check", "done"})

\* The second call of run has returned.
C7_Witness == runs = 2 /\ pc = "done" /\ Len(data) > 0

\* C8 (termination part, under FairSpec): every call of run() returns, with
\* no vertex active.
C8_Terminates == [](pc # "done" ~> (pc = "done" /\ ActiveSet(vertices) = {}))

\* C8: no stats tuple has a step number greater than the ceiling nsteps.
C8_WithinCeiling == \A k \in 1 .. Len(data) : data[k][1] <= nsteps

\* C9: when the run has returned, the step number of the final tuple is
\* nsteps if and only if some vertex was active when round nsteps began,
\* and it is below nsteps otherwise.
C9_ExhaustionVisible ==
    (pc = "done" /\ Len(data) > 0) =>
        LET final == data[Len(data)][1]
        IN /\ (final = nsteps) <=> ceilingActive
           /\ ~ceilingActive => final < nsteps

\* C10 (step part): the phases of a round follow each other in the order
\* updates, redistribution, stats, increment; the stats call appends the
\* stats of the vertices as the round left them, with the round's number.
C10_PhaseOrder ==
    /\ pc = "superstep" => pc' \in {"superstep", "redistribute"}
    /\ pc = "redistribute" => pc' = "stats"
    /\ pc = "stats" =>
          /\ pc' = "increment"
          /\ vertices' = vertices
          /\ data'[Len(data')][1] = Superstep
          /\ data'[Len(data')][1] = Len(data)
          /\ data'[Len(data')][2][1] =
               Cardinality({v \in V :
                   IF variant = "epidemic" THEN vertices[v].value >= 0
                   ELSE vertices[v].value = "F"})
    /\ pc = "increment" =>
          /\ pc' = "check"
          /\ \A v \in V : vertices'[v].superstep = Len(data)
          /\ data' = data

\* C10: within a round the updates come first, then the redistribution,
\* then the stats call, then the increment, so the stats function sees the
\* values of the round just completed and that round's number.
C10_RoundOrder == [][C10_PhaseOrder]_vars

\* The stats call of a round in which a value was written: a vertex died
\* in this round and the tuple about to be appended counts it as dead.
C10_Witness ==
    /\ pc = "stats"
    /\ variant = "epidemic"
    /\ Superstep >= 2
    /\ \E v \in V : vertices[v].value = -1
    /\ data[Len(data)][2][1] = Cardinality(V)

\* The vertices with every field but value and superstep (and id) replaced
\* by a fixed content.
ValuesOnly(vs) ==
    [v \in V |-> [vs[v] EXCEPT !.active = TRUE,
                               !.incoming_messages = <<>>,
                               !.outgoing_messages = <<>>,
                               !.out_vertices = <<>>]]

\* C11: a call of the stats function leaves every field of every vertex
\* unchanged, and its result is the one it gives for the same values and
\* superstep with all other fields replaced: it depends on superstep and
\* values only.
C11_StatsPure ==
    pc = "stats" =>
        /\ StatsFnVertices(vertices) = vertices
        /\ StatsFn(vertices) = StatsFn(ValuesOnly(vertices))

\* The stats function is called on vertices whose other fields differ from
\* the fixed content: a halted vertex that is alive and has out-edges.
C11_Witness ==
    /\ pc = "stats"
    /\ variant = "epidemic"
    /\ \E v \in V : /\ ~vertices[v].active
                     /\ vertices[v].value = 0
                     /\ Len(vertices[v].out_vertices) > 0

\* C12 (step part): the update of v leaves every other vertex as it is and
\* leaves v's id, superstep, incoming buffer and out-edges as they are; no
\* step changes the vertex set or an out-edge list, and only the increment
\* changes the superstep.
C12_OwnFieldsOnly ==
    /\ \A v \in V : Invoked(v) =>
          /\ \A u \in V \ {v} : vertices'[u] = vertices[u]
          /\ vertices'[v].id = vertices[v].id
          /\ vertices'[v].superstep = vertices[v].superstep
          /\ vertices'[v].incoming_messages = Incoming(v)
    /\ DOMAIN vertices' = DOMAIN vertices
    /\ \A v \in V : vertices'[v].out_vertices = vertices[v].out_vertices
    /\ pc # "increment" =>
          \A v \in V : vertices'[v].superstep = vertices[v].superstep

\* C12: an update call of v changes only v's own value, active flag and
\* outgoing buffer; the other vertices, the superstep, the vertex set and
\* the out-edges stay as they are.
C12_UpdateFrame == [][C12_OwnFieldsOnly]_vars

\* An infected vertex has been updated and has emitted to a neighbour that
\* is still healthy.
C12_Witness ==
    /\ variant = "epidemic"
    /\ pc \in {"superstep", "redistribute"}
    /\ \E v \in V : \E k \in 1 .. Len(Outgoing(v)) :
          vertices[Outgoing(v)[k][1]].value = 0

\* The outcomes of the random tests of one update call of v: trials for
\* the incoming messages (epidemic), sw and sel (social).  A call that
\* reaches no random test (an epidemic vertex that is not healthy, a social
\* vertex with no majority for M) has one outcome.
VertexDraws(vs, v) ==
    LET self == vs[v]
        n == Len(self.incoming_messages)
    IN IF variant = "epidemic"
       THEN {[trials |-> t, sw |-> FALSE, sel |-> <<>>] :
                t \in IF /\ self.superstep > 0
                         /\ self.superstep < nsteps
                         /\ self.value = 0
                      THEN Trials(n, p)
                      ELSE {[k \in 1 .. n |-> FALSE]}}
       ELSE {[trials |-> <<>>, sw |-> w, sel |-> l] :
                w \in IF /\ self.value # "M"
                         /\ CountMsg(self.incoming_messages, "M", 1)
                              > CountMsg(self.incoming_messages, "F", 1)
                      THEN RandomLess(sp)
                      ELSE {FALSE},
                l \in IF self.superstep < nsteps
                      THEN Trials(Len(self.out_vertices), a)
                      ELSE {[k \in 1 .. Len(self.out_vertices) |-> FALSE]}}

RECURSIVE RoundDraws(_, _)
\* One outcome per vertex from k on for a whole round, as a list:
\* the outcome of vertex v is at position v - k + 1.
RoundDraws(vs, k) ==
    IF k \notin DOMAIN vs THEN {<<>>}
    ELSE {<<h>> \o t : h \in VertexDraws(vs, k), t \in RoundDraws(vs, k + 1)}

\* The update call of v with the outcomes d of its random tests.
UpdateCall(vs, v, d) ==
    IF variant = "epidemic" THEN EpidemicUpdateCall(vs, v, d.trials)
    ELSE SocialUpdateCall(vs, v, d.sw, d.sel)

RECURSIVE UpdateInOrder(_, _, _, _)
\* The vertices after the update calls of order[k], order[k+1], ... in
\* that order, vertex v drawing d[v + 1].
UpdateInOrder(vs, order, d, k) ==
    IF k > Len(order) THEN vs
    ELSE UpdateInOrder(UpdateCall(vs, order[k], d[order[k] + 1]),
                       order, d, k + 1)

RECURSIVE Orders(_)
\* All orders in which the vertices of S can be updated.
Orders(S) ==
    IF S = {} THEN {<<>>}
    ELSE UNION {{<<x>> \o t : t \in Orders(S \ {x})} : x \in S}

\* One call of run() with the highest ceiling.  A round before the ceiling
\* of a run with a lower ceiling begins as the same round of this run does
\* (the rules test superstep < nsteps only), and in a ceiling round every
\* update only sets active = False.
OrderInit == Init /\ nsteps = MaxNSteps

OrderSpec == OrderInit /\ [][RunStep]_vars

\* C13: at the start of every round, for each outcome of the vertices'
\* random tests, updating the active vertices in any order gives the same
\* vertices (values, active flags, outgoing buffers) as updating them in id
\* order; the messages delivered for the next round are the content of
\* the outgoing buffers, so they are the same too.
C13_OrderIndependent ==
    (pc = "superstep" /\ pending = ActiveSet(vertices)) =>
        LET orders == Orders(pending)
        IN \A d \in RoundDraws(vertices, 0) :
              LET byId == UpdateInOrder(vertices, SortedSeq(pending), d, 1)
              IN \A o \in orders : UpdateInOrder(vertices, o, d, 1) = byId

\* A round begins in which a healthy vertex with a message to read and the
\* infected vertex that sent it are both to be updated.
C13_Witness ==
    /\ variant = "epidemic"
    /\ pc = "superstep"
    /\ pending = ActiveSet(vertices)
    /\ Superstep < nsteps
    /\ \E u \in pending :
          /\ vertices[u].value = 0
          /\ \E k \in 1 .. Len(Incoming(u)) :
                 /\ Incoming(u)[k][1] \in pending
                 /\ vertices[Incoming(u)[k][1]].value > 0

\* A platform label that is neither "F" nor "M".
OtherLabel == "X"

\* The social network with one vertex constructed with another label than
\* social_main gives: SocialVertex(j, value, [], []) takes any value.
FaultInit ==
    /\ variant = "social"
    /\ nsteps \in 0 .. MaxNSteps
    /\ i \in 0 .. NumVertices
    /\ td = 1
    /\ p = "1.0"
    /\ a \in Probabilities
    /\ sp \in Probabilities
    /\ \E g \in UndirectedGraphs :
         \E initial \in {s \in SUBSET Ids : Cardinality(s) = i} :
           \E x \in Ids :
             vertices = [SocialMain(g, initial) EXCEPT ![x].value = OtherLabel]
    /\ data = <<>>
    /\ pc = "check"
    /\ pending = {}
    /\ runs = 1
    /\ ceilingActive = FALSE

FaultNext ==
    \/ CheckActive
    \/ UpdateSocial
    \/ Redistribute
    \/ CollectStats
    \/ Increment

FaultSpec == FaultInit /\ [][FaultNext]_vars

\* The update of v is about to read a message it cannot count.
C14_ReadsOtherLabel(v) ==
    /\ vertices[v].superstep < nsteps
    /\ vertices[v].value # "M"
    /\ \E k \in 1 .. Len(Incoming(v)) : Incoming(v)[k][3] = OtherLabel

\* C14 (step part): the update that meets such a message ends the run in
\* that step, leaving vertices and result as they are; nothing happens
\* after the abort, so the update is not retried.
C14_AbortStep ==
    /\ (pc = "superstep" /\ pending # {} /\ C14_ReadsOtherLabel(NextVertex))
          => (pc' = "aborted" /\ vertices' = vertices /\ data' = data)
    /\ pc = "aborted" => UNCHANGED vars

\* C14 (state part): in an aborted run the superstep is that of the round
\* of the failure and the result holds the tuples of the earlier rounds
\* only.
C14_NoPartialRound ==
    pc = "aborted" =>
        /\ Len(data) = Superstep
        /\ \A k \in 1 .. Len(data) : data[k][1] < Superstep
        /\ \A v \in V : vertices[v].superstep = Superstep

\* C14: an update call that fails in round t aborts the run in round t: no
\* stats tuple for round t, no advance of the superstep, no retry.
C14_FailedUpdateAborts == [](C14_NoPartialRound) /\ [][C14_AbortStep]_vars

\* A run aborted in round 1 or later, after another vertex of the round had
\* been updated.
C14_Witness ==
    /\ pc = "aborted"
    /\ Len(data) >= 1
    /\ pending # ActiveSet(vertices)

\* A construction check that looks at the ids only.
WellFormedIdsOnly(vs) ==
    \A u, v \in V : vs[u].id = vs[v].id => u = v

\* The topology check at construction: every out-edge refers to a vertex of
\* the vertex set and no two vertices have the same id.
WellFormed(vs) ==
    /\ \A v \in V : \A k \in 1 .. Len(vs[v].out_vertices) :
          vs[v].out_vertices[k] \in V
    /\ \A u, v \in V : vs[u].id = vs[v].id => u = v

\* A reference to a vertex object that is not in the vertex list.
Dangling == NumVertices

\* The vertex lists a caller can hand to the constructor in place of vs:
\* vs itself, vs with one dangling out-edge, vs with one id used twice.
Topologies(vs) ==
    {vs}
    \cup {[vs EXCEPT ![x].out_vertices = Append(@, Dangling)] : x \in Ids}
    \cup {[vs EXCEPT ![x].id = y] : x \in Ids, y \in Ids}

\* Construction of the Pregel object for the vertex lists of both main
\* functions and their malformed variants; the check does not read the
\* notebook parameters, which are set so that no random test has two
\* outcomes.
ConfigInit ==
    /\ variant \in {"epidemic", "social"}
    /\ nsteps = MaxNSteps
    /\ i \in 0 .. NumVertices
    /\ td = 1
    /\ p = "1.0"
    /\ a = "1.0"
    /\ sp = "1.0"
    /\ \E vs \in IF variant = "epidemic"
                THEN {EpidemicMain(g) : g \in Graphs}
                ELSE {SocialMain(g, initial) :
                         g \in UndirectedGraphs,
                         initial \in {s \in SUBSET Ids : Cardinality(s) = i}} :
          vertices \in Topologies(vs)
    /\ data = <<>>
    /\ pc = "construct"
    /\ pending = {}
    /\ runs = 1
    /\ ceilingActive = FALSE

\* Pregel(vertices, ...): a malformed topology is reported, a well-formed
\* one is ready to run.
Construct ==
    /\ pc = "construct"
    /\ pc' = IF WellFormed(vertices) THEN "check" ELSE "rejected"
    /\ UNCHANGED <<params, vertices, data, pending, runs, ceilingActive>>

ConfigNext ==
    \/ Construct
    \/ CheckActive
    \/ UpdateEpidemic
    \/ UpdateSocial
    \/ Redistribute
    \/ CollectStats
    \/ Increment

ConfigSpec == ConfigInit /\ [][ConfigNext]_vars

\* An out-edge refers to no vertex of the set, or two vertices share an id.
C15_Malformed ==
    \/ \E v \in V : \E k \in 1 .. Len(vertices[v].out_vertices) :
          vertices[v].out_vertices[k] \notin V
    \/ \E u, v \in V : u # v /\ vertices[u].id = vertices[v].id

\* C15 (state part): on a malformed topology no round is ever entered: no
\* update is invoked, nothing is appended, superstep 0 does not run.
C15_NeverRuns ==
    C15_Malformed =>
        /\ pc \in {"construct", "rejected"}
        /\ data = <<>>
        /\ pending = {}
        /\ \A v \in V : vertices[v].superstep = 0 /\ Outgoing(v) = <<>>

\* C15: a malformed topology is reported by the construction, before
\* superstep 0, and no update rule is invoked on it.
C15_MalformedRejected ==
    /\ [](C15_NeverRuns)
    /\ [][(pc = "construct" /\ C15_Malformed)
            => (pc' = "rejected" /\ vertices' = vertices)]_vars

\* The construction has reported a dangling out-edge.
C15_Witness ==
    /\ pc = "rejected"
    /\ \E v \in V : \E k \in 1 .. Len(vertices[v].out_vertices) :
          vertices[v].out_vertices[k] = Dangling

\* C16 (state part): in the epidemic variant the number of alive vertices
\* does not grow from a stats tuple to the next, and a dead vertex is
\* halted.
C16_AliveSeries ==
    variant = "epidemic" =>
        /\ \A k \in 1 .. Len(data) - 1 : data[k + 1][2][1] <= data[k][2][1]
        /\ \A v \in V : vertices[v].value = -1 => ~vertices[v].active

\* C16 (step part): a vertex whose value is -1 keeps it.
C16_DeadStaysDead ==
    variant = "epidemic" =>
        \A v \in V : vertices[v].value = -1 => vertices'[v].value = -1

\* C16: in the epidemic variant the number of alive vertices in the stats
\* tuples is non-increasing; a vertex whose value is -1 never gets a value
\* >= 0 again.
C16_AliveNonIncreasing == [](C16_AliveSeries) /\ [][C16_DeadStaysDead]_vars

\* A finished epidemic run in which a vertex died while another stayed
\* alive to the end, with messages still being read after the death.
C16_Witness ==
    /\ variant = "epidemic"
    /\ pc = "done"
    /\ Len(data) >= 4
    /\ data[Len(data)][2][1] < data[1][2][1]
    /\ data[Len(data)][2][1] > 0

\* C17 (state part): in the social variant the number of vertices on M
\* does not shrink from a stats tuple to the next.
C17_MSeries ==
    variant = "social" =>
        \A k \in 1 .. Len(data) - 1 : data[k + 1][3][1] >= data[k][3][1]

\* C17 (step part): a vertex on M stays on M.
C17_MStaysM ==
    variant = "social" =>
        \A v \in V : vertices[v].value = "M" => vertices'[v].value = "M"

\* C17: in the social variant a vertex whose value is M keeps it in every
\* later round; the number of vertices on M in the stats tuples is
\* non-decreasing.
C17_NoReversal == [](C17_MSeries) /\ [][C17_MStaysM]_vars

\* A vertex on M has been updated after reading a message from F and no
\* message from M, and is on M.
C17_Witness ==
    /\ variant = "social"
    /\ pc \in {"superstep", "redistribute"}
    /\ \E v \in V \ pending :
          /\ vertices[v].active
          /\ vertices[v].value = "M"
          /\ CountMsg(Incoming(v), "F", 1) > CountMsg(Incoming(v), "M", 1)

\* Scenarios B and C: two vertices, each the only out-vertex of the other.
TwoVertices(value) == [v \in {0, 1} |-> Vertex(v, value[v], <<1 - v>>)]

\* Scenario B: epidemic_main with n = 2 and both edges drawn, i = 1 (vertex
\* 0 infected in round 0), td = 1, p = 1.0; the ceiling is any value up to
\* two rounds beyond MaxNSteps.
ScenarioBInit ==
    /\ variant = "epidemic"
    /\ nsteps \in 0 .. (MaxNSteps + 2)
    /\ i = 1
    /\ td = 1
    /\ p = "1.0"
    /\ a = "1.0"
    /\ sp = "1.0"
    /\ vertices = TwoVertices([v \in {0, 1} |-> Unset])
    /\ data = <<>>
    /\ pc = "check"
    /\ pending = {}
    /\ runs = 1
    /\ ceilingActive = FALSE

ScenarioBNext ==
    \/ CheckActive
    \/ UpdateEpidemic
    \/ Redistribute
    \/ CollectStats
    \/ Increment
    \/ RunAgain

ScenarioBSpec == ScenarioBInit /\ [][ScenarioBNext]_vars

\* Scenario B as far as every ceiling of 3 or more shows it: after round 0
\* vertex 0 is infected and vertex 1 healthy, and in round 2 vertex 1 is
\* infected.
C18_InfectedInRound2 ==
    (nsteps >= 3 /\ pc = "stats") =>
        /\ Superstep = 0 => (vertices[0].value = 1 /\ vertices[1].value = 0)
        /\ Superstep = 2 => vertices[1].value > 0

ScenarioCInit ==
    /\ variant = "social"
    /\ nsteps \in 0 .. (MaxNSteps + 2)
    /\ i = 1
    /\ td = 1
    /\ p = "1.0"
    /\ a = "1.0"
    /\ sp = "1.0"
    /\ vertices = TwoVertices([v \in {0, 1} |-> IF v = 0 THEN "M" ELSE "F"])
    /\ data = <<>>
    /\ pc = "check"
    /\ pending = {}
    /\ runs = 1
    /\ ceilingActive = FALSE

ScenarioCNext ==
    \/ CheckActive
    \/ UpdateSocial
    \/ Redistribute
    \/ CollectStats
    \/ Increment
    \/ RunAgain

ScenarioCSpec == ScenarioCInit /\ [][ScenarioCNext]_vars

\* C19: in scenario C, with a ceiling that lets round 1 run (nsteps >= 2),
\* vertex 1 enters round 1 on F with exactly one message in its buffer, an
\* M; it is on M once round 1 has updated it; and both vertices are on M
\* when the run is over.
C19_ScenarioC ==
    nsteps >= 2 =>
        /\ (pc = "superstep" /\ Superstep = 1 /\ 1 \in pending) =>
              /\ vertices[1].value = "F"
              /\ Len(Incoming(1)) = 1
              /\ CountMsg(Incoming(1), "M", 1) = 1
              /\ CountMsg(Incoming(1), "F", 1) = 0
        /\ (pc \in {"superstep", "redistribute"} /\ Superstep = 1
              /\ 1 \notin pending) =>
              vertices[1].value = "M"
        /\ pc = "done" =>
              (vertices[0].value = "M" /\ vertices[1].value = "M")

\* Round 1 of scenario C has just updated vertex 1, which switched.
C19_Witness ==
    /\ nsteps >= 2
    /\ pc = "redistribute"
    /\ Superstep = 1
    /\ vertices[1].value = "M"
    /\ CountMsg(Incoming(1), "M", 1) = 1

\* The infection messages of vertex v to all its out-vertices (line 122).
Sneezes(v) ==
    [k \in 1 .. Len(vertices[v].out_vertices) |->
        Message(vertices[v].out_vertices[k], 1, "sneeze",
                vertices[v].superstep)]

\* Vertex v has been updated in the round under way, an ordinary round
\* after round 0.
UpdatedInRound(v) ==
    /\ pc \in {"superstep", "redistribute"}
    /\ v \notin pending
    /\ vertices[v].active
    /\ Superstep > 0
    /\ Superstep < nsteps

\* C20 as stated: the messages an infected vertex sends in a round are the
\* outcome of one trial with probability p per out-neighbour, so that with
\* p = 0 it sends none.
C20_SendsPerNeighbourTrial ==
    variant = "epidemic" =>
        \A v \in V :
            Outgoing(v) # <<>> =>
                \E sel \in Trials(Len(vertices[v].out_vertices), p) :
                    Outgoing(v) = SelectIdx(Sneezes(v), sel, 1)

\* C20 as the code has it: an infected vertex within its incubation window
\* sends its message to every out-neighbour in every round, whatever p is;
\* the trial with probability p is the receiver's, one per message it reads:
\* with p = 0 no vertex is ever infected by a message, with p = 1 a healthy
\* vertex that reads a message is infected.
C20_SendsToAllReceiverTries ==
    variant = "epidemic" =>
        \A v \in V :
            /\ (UpdatedInRound(v) /\ vertices[v].value > 1) =>
                  Outgoing(v) = Sneezes(v)
            /\ (p = "0.0" /\ vertices[v].value > 0) => v < i
            /\ (p = "1.0" /\ UpdatedInRound(v) /\ Incoming(v) # <<>>) =>
                  vertices[v].value # 0

\* With 0 < p < 1 a vertex has sent its message to both its out-neighbours,
\* both have read it, and one is infected while the other is not.
C20_Witness ==
    /\ variant = "epidemic"
    /\ p = "between"
    /\ \E u \in V :
          /\ Len(vertices[u].out_vertices) = 2
          /\ LET v == vertices[u].out_vertices[1]
                 w == vertices[u].out_vertices[2]
             IN /\ UpdatedInRound(v) /\ UpdatedInRound(w)
                /\ Incoming(v) # <<>> /\ Incoming(w) # <<>>
                /\ {vertices[v].value, vertices[w].value} = {0, 1}

\* ------------------------------------------------ the epidemic notebook
\* The runs of the epidemic notebook alone.
EpidemicInit == Init /\ variant = "epidemic"

EpidemicNext ==
    \/ CheckActive
    \/ UpdateEpidemic
    \/ Redistribute
    \/ CollectStats
    \/ Increment
    \/ RunAgain

EpidemicSpec == EpidemicInit /\ [][EpidemicNext]_vars

\* The update of v invoked in this step takes the ordinary branch of the
\* rule: a round after round 0 and before the ceiling.
OrdinaryUpdate(v) ==
    /\ Invoked(v)
    /\ vertices[v].superstep > 0
    /\ vertices[v].superstep < nsteps

\* C21 (one update): a healthy vertex updated in an ordinary round ends
\* with value 0 or 1; it is infected only if its buffer is non-empty and
\* p > 0, it is infected whenever the buffer is non-empty and p = 1, and it
\* stays active and emits nothing.
C21_HealthyUpdate ==
    variant = "epidemic" =>
        \A v \in V :
            (OrdinaryUpdate(v) /\ vertices[v].value = 0) =>
                /\ vertices'[v].value \in {0, 1}
                /\ vertices'[v].value = 1 =>
                      (Incoming(v) # <<>> /\ p # "0.0")
                /\ (Incoming(v) # <<>> /\ p = "1.0") =>
                      vertices'[v].value = 1
                /\ vertices'[v].active
                /\ vertices'[v].outgoing_messages = <<>>

\* C21: a healthy vertex makes one trial with probability p per incoming
\* message of the round; any success sets its value to exactly 1.
C21_PerMessageTrial == [][C21_HealthyUpdate]_vars

\* With 0 < p < 1 a healthy vertex has read two messages in one round and
\* is infected, with value 1.
C21_Witness ==
    /\ variant = "epidemic"
    /\ p = "between"
    /\ \E v \in V :
          /\ UpdatedInRound(v)
          /\ Len(Incoming(v)) = 2
          /\ vertices[v].value = 1

\* The update of `self` had its incoming buffer been empty.
UpdateUnread(self) ==
    [EpidemicUpdate([self EXCEPT !.incoming_messages = <<>>], <<>>)
        EXCEPT !.incoming_messages = self.incoming_messages]

\* C22 (one update): the update that infects a vertex (round t) emits
\* nothing; an ordinary update of a vertex with value k in 1 .. td raises the
\* value to k + 1 and emits one message to every out-neighbour; an ordinary
\* update of a vertex with value td + 1 sets value = -1 and active = false
\* and emits nothing; and the update of an infected vertex is what it would
\* have been with an empty incoming buffer.
C22_InfectedUpdate ==
    variant = "epidemic" =>
        \A v \in V :
            /\ (Invoked(v) /\ vertices[v].value <= 0
                  /\ vertices'[v].value = 1) =>
                  vertices'[v].outgoing_messages = <<>>
            /\ (OrdinaryUpdate(v) /\ vertices[v].value > 0) =>
                  /\ vertices'[v] = UpdateUnread(vertices[v])
                  /\ IF vertices[v].value <= td
                     THEN /\ vertices'[v].value = vertices[v].value + 1
                          /\ vertices'[v].active
                          /\ vertices'[v].outgoing_messages = Sneezes(v)
                     ELSE /\ vertices[v].value = td + 1
                          /\ vertices'[v].value = -1
                          /\ ~vertices'[v].active
                          /\ vertices'[v].outgoing_messages = <<>>

FriendGraphs ==
    {g \in SUBSET Edges :
        /\ \A e \in g : <<e[2], e[1]>> \in g
        /\ Cardinality(g) <= 2 * MaxEdges}

\* The runs of the social notebook alone.
SocialInit == Init /\ variant = "social"

\* Runs of the social notebook on the friendship graphs, with every friend
\* contacted in every round (a = 1.0).
CrowdInit ==
    /\ variant = "social"
    /\ nsteps \in 0 .. MaxNSteps
    /\ i \in 0 .. NumVertices
    /\ td = 1
    /\ p = "1.0"
    /\ a = "1.0"
    /\ sp \in Probabilities
    /\ \E g \in FriendGraphs :
         \E initial \in {s \in SUBSET Ids : Cardinality(s) = i} :
            vertices = SocialMain(g, initial)
    /\ data = <<>>
    /\ pc = "check"
    /\ pending = {}
    /\ runs = 1
    /\ ceilingActive = FALSE

SocialNext ==
    \/ CheckActive
    \/ UpdateSocial
    \/ Redistribute
    \/ CollectStats
    \/ Increment
    \/ RunAgain

SocialSpec == SocialInit /\ [][SocialNext]_vars

CrowdSpec == CrowdInit /\ [][SocialNext]_vars

\* The update of v invoked in this step is one before the ceiling.
BeforeCeiling(v) == Invoked(v) /\ vertices[v].superstep < nsteps

\* C23 (one update): a vertex on F updated before the ceiling switches only
\* if it read more M than F messages and sp > 0, and always switches when
\* it read more M than F messages and sp = 1.0; otherwise it stays on F.
C23_SwitchDecision ==
    variant = "social" =>
        \A v \in V :
            (BeforeCeiling(v) /\ vertices[v].value = "F") =>
                LET f == CountMsg(Incoming(v), "F", 1)
                    m == CountMsg(Incoming(v), "M", 1)
                IN /\ vertices'[v].value \in {"F", "M"}
                   /\ vertices'[v].value = "M" => (m > f /\ sp # "0.0")
                   /\ (m > f /\ sp = "1.0") => vertices'[v].value = "M"

\* C23: a vertex on F can switch only on a strict majority of M messages.
C23_StrictMajority == [][C23_SwitchDecision]_vars

\* With sp = 1.0 a vertex has read as many M as F messages, at least one of
\* each, and is still on F.
C23_Witness ==
    /\ variant = "social"
    /\ sp = "1.0"
    /\ \E v \in V :
          /\ UpdatedInRound(v)
          /\ vertices[v].value = "F"
          /\ CountMsg(Incoming(v), "M", 1) >= 1
          /\ CountMsg(Incoming(v), "M", 1) = CountMsg(Incoming(v), "F", 1)

\* The friendship graph with vertex 0 the friend of vertices 1 and 2, who
\* are not friends of each other; any further vertex has no friend.
HubGraph ==
    {e \in Edges : e[1] + e[2] <= 2 /\ (e[1] = 0 \/ e[2] = 0)}

\* Runs of the social notebook on the hub graph.
HubInit ==
    /\ variant = "social"
    /\ nsteps \in 0 .. MaxNSteps
    /\ i \in 0 .. NumVertices
    /\ td = 1
    /\ p = "1.0"
    /\ a \in Probabilities
    /\ sp \in Probabilities
    /\ \E initial \in {s \in SUBSET Ids : Cardinality(s) = i} :
          vertices = SocialMain(HubGraph, initial)
    /\ data = <<>>
    /\ pc = "check"
    /\ pending = {}
    /\ runs = 1
    /\ ceilingActive = FALSE

HubSpec == HubInit /\ [][SocialNext]_vars

\* C24 (one update): an update before the ceiling leaves in the outgoing
\* buffer the outcome of one trial with probability a per out-vertex, in
\* the order of the out-vertices: one message to each selected out-vertex
\* and nothing else, each carrying the label the vertex has after the
\* update.
C24_Broadcast ==
    variant = "social" =>
        \A v \in V :
            BeforeCeiling(v) =>
                LET out == vertices[v].out_vertices
                    all == [k \in 1 .. Len(out) |->
                               Message(out[k], 1, vertices'[v].value,
                                       vertices[v].superstep)]
                IN /\ vertices'[v].active
                   /\ \E sel \in Trials(Len(out), a) :
                         vertices'[v].outgoing_messages =
                             SelectIdx(all, sel, 1)

\* C24: before the ceiling every active vertex, switched or not, sends its
\* label as it is after the switch decision to a subset of its
\* out-neighbours chosen with probability a each.
C24_Rebroadcast == [][C24_Broadcast]_vars

\* Round 1 of a run that started with one vertex on M: all vertices have been
\* updated, the hub and another vertex are on M, so one of them switched in
\* this round, and the hub has sent M to one of its friends only.
C24_Witness ==
    /\ variant = "social"
    /\ i = 1
    /\ pc = "redistribute"
    /\ Superstep = 1
    /\ Superstep < nsteps
    /\ vertices[0].value = "M"
    /\ \E v \in V \ {0} :
          /\ vertices[v].value = "M"
          /\ Outgoing(v) = <<Message(0, 1, "M", 1)>>
    /\ Len(vertices[0].out_vertices) >= 2
    /\ Len(Outgoing(0)) = 1
    /\ Outgoing(0)[1][3] = "M"

\* Vertex v has been through the update of the round under way.
UpdatedThisRound(v) ==
    /\ pc \in {"superstep", "redistribute", "stats", "increment"}
    /\ v \notin pending

\* C25: in the social variant a vertex is inactive only from its update of
\* round nsteps on, so every vertex is active in the rounds 0 .. nsteps and
\* all deactivate in round nsteps; the result of a run has exactly
\* nsteps + 1 tuples, with the step numbers 0 .. nsteps.
C25_RunsToCeiling ==
    variant = "social" =>
        /\ \A v \in V :
              /\ ~vertices[v].active =>
                    \/ Superstep = nsteps /\ UpdatedThisRound(v)
                    \/ Superstep > nsteps
              /\ (Superstep = nsteps /\ UpdatedThisRound(v)) =>
                    ~vertices[v].active
        /\ Superstep <= nsteps + 1
        /\ pc = "done" =>
              /\ Superstep = nsteps + 1
              /\ Len(data) = nsteps + 1
              /\ \A k \in 1 .. Len(data) : data[k][1] = k - 1

\* A social run with the highest ceiling has returned, with a tuple for
\* every round up to the ceiling.
C25_Witness ==
    /\ variant = "social"
    /\ pc = "done"
    /\ nsteps = MaxNSteps
    /\ Len(data) = MaxNSteps + 1
    /\ \E v \in V : vertices[v].value = "M"

\* ------------------------------------------- the notebook's run loop
\* The parameter cell: i = 1, the number of nodes initially infected.
ConfiguredI == 1

\* The state after the parameter cell and before the cell with the loop
\*     for i in range(10): ds.append(epidemic_main())
\* No vertex list exists yet.  td = 1 as in the parameter cell.
NotebookInit ==
    /\ variant = "epidemic"
    /\ nsteps \in 0 .. MaxNSteps
    /\ i = ConfiguredI
    /\ td = 1
    /\ p \in Probabilities
    /\ a = "1.0"
    /\ sp = "1.0"
    /\ vertices = <<>>
    /\ data = <<>>
    /\ pc = "cell"
    /\ pending = {}
    /\ runs = 0
    /\ ceilingActive = FALSE

\* One iteration of the loop: the loop variable is the global i, which the
\* update rule reads; epidemic_main builds a new vertex list and a new
\* Pregel object and runs it.  runs counts the iterations begun; the loop is
\* followed for the iterations 0 .. MaxRuns.
LoopIteration ==
    /\ pc \in {"cell", "done"}
    /\ runs <= MaxRuns
    /\ i' = runs
    /\ runs' = runs + 1
    /\ \E g \in Graphs : vertices' = EpidemicMain(g)
    /\ data' = <<>>
    /\ pending' = {}
    /\ ceilingActive' = FALSE
    /\ pc' = "check"
    /\ UNCHANGED <<variant, nsteps, td, p, a, sp>>

NotebookNext ==
    \/ LoopIteration
    \/ CheckActive
    \/ UpdateEpidemic
    \/ Redistribute
    \/ CollectStats
    \/ Increment

NotebookSpec == NotebookInit /\ [][NotebookNext]_vars

\* C26: in every run started by the loop, when round 0 has updated all
\* vertices the infected vertices (value 1) are exactly those with
\* id < 1, the configured count, every other vertex has value 0, and no
\* message has been emitted.
C26_ConfiguredInfected ==
    (pc = "redistribute" /\ vertices[0].superstep = 0) =>
        \A v \in V :
            /\ vertices[v].value = (IF v < ConfiguredI THEN 1 ELSE 0)
            /\ vertices[v].outgoing_messages = <<>>

\* C27: in the epidemic variant a vertex that is not dead is inactive only
\* from the ceiling on, so a run that has returned with fewer tuples than
\* the rounds 0 .. nsteps has every vertex dead, and a run in which some
\* vertex is not dead has a tuple for every round up to the ceiling.
C27_EndsEarlyOnlyAllDead ==
    variant = "epidemic" =>
        /\ \A v \in V :
              (vertices[v].value # -1 /\ ~vertices[v].active) =>
                  Superstep >= nsteps
        /\ (pc = "done" /\ Len(data) <= nsteps) =>
              \A v \in V : vertices[v].value = -1
        /\ (pc = "done" /\ \E v \in V : vertices[v].value # -1) =>
              \A r \in 0 .. nsteps : r + 1 \in DOMAIN data /\ data[r + 1][1] = r

\* Before the ceiling a round starts with a dead vertex, no infected vertex
\* and no message anywhere, and a healthy vertex is still to be updated.
C27_Witness ==
    /\ variant = "epidemic"
    /\ pc = "superstep"
    /\ Superstep < nsteps
    /\ \E v \in V : vertices[v].value = -1
    /\ \A v \in V :
          /\ vertices[v].value <= 0
          /\ Incoming(v) = <<>>
          /\ Outgoing(v) = <<>>
    /\ \E v \in pending : vertices[v].value = 0

\* Round 0 has updated vertex v.
AfterRound0(v) ==
    \/ vertices[v].superstep > 0
    \/ pc \in {"redistribute", "stats", "increment"}
    \/ (pc = "superstep" /\ v \notin pending)

\* C28: after round 0 the value of an epidemic vertex is -1 or in
\* 0 .. td + 1 and a vertex with value -1 is inactive; so no vertex still to
\* be updated in a round is dead (the "already dead" branch is never taken)
\* and in every stats tuple the infected count is at most the alive count.
C28_ValueRange ==
    variant = "epidemic" =>
        /\ \A v \in V :
              AfterRound0(v) =>
                  /\ vertices[v].value \in {-1} \cup (0 .. (td + 1))
                  /\ vertices[v].value = -1 => ~vertices[v].active
        /\ \A v \in pending :
              vertices[v].superstep > 0 => vertices[v].value # -1
        /\ \A k \in 1 .. Len(data) : data[k][3][1] <= data[k][2][1]

\* With the longest incubation a vertex has reached value td + 1 while
\* another vertex is dead and inactive.
C28_Witness ==
    /\ variant = "epidemic"
    /\ td = MaxTd
    /\ \E v \in V : vertices[v].value = td + 1 /\ vertices[v].active
    /\ \E v \in V : vertices[v].value = -1 /\ ~vertices[v].active

\* The payloads of a buffer.
Payloads(buf) == {buf[k][3] : k \in 1 .. Len(buf)}

\* C29: in a social run started by social_main every value and every
\* message payload is F or M, no update raises (no vertex still to be
\* updated would, and no run is aborted), and in every stats tuple the
\* count on F plus the count on M is the number of vertices.
C29_OnlyFAndM ==
    variant = "social" =>
        /\ \A v \in V :
              /\ vertices[v].value \in {"F", "M"}
              /\ Payloads(Incoming(v)) \subseteq {"F", "M"}
              /\ Payloads(Outgoing(v)) \subseteq {"F", "M"}
              /\ ~SocialUpdateRaises(vertices[v])
        /\ pc # "aborted"
        /\ \A k \in 1 .. Len(data) :
              data[k][2][1] + data[k][3][1] = Cardinality(V)

\* A stats tuple has vertices on both platforms and messages of both labels
\* are in the incoming buffers.
C29_Witness ==
    /\ variant = "social"
    /\ pc = "increment"
    /\ data[Len(data)][2][1] > 0
    /\ data[Len(data)][3][1] > 0
    /\ \E v \in V : "F" \in Payloads(Incoming(v))
    /\ \E v \in V : "M" \in Payloads(Incoming(v))

\* The emissions of the round under way that are addressed to u, as pairs
\* of the emitting vertex and the position in its outgoing buffer.
AddressedTo(u) ==
    {e \in V \X (1 .. MaxEdges) :
        /\ e[2] <= Len(Outgoing(e[1]))
        /\ Outgoing(e[1])[e[2]][1] = u}

\* C30 (redistribution step): the incoming buffer of the next round holds,
\* for every vertex u, with or without out-edges, as many messages as this
\* round's emissions addressed to u, each of them emitted in this round by
\* the vertex named as its source; when nothing is addressed to u the buffer
\* is empty whatever it held before.
C30_ExactBuffer ==
    pc = "redistribute" =>
        \A u \in V :
            LET new == vertices'[u].incoming_messages
            IN /\ Len(new) = Cardinality(AddressedTo(u))
               /\ \A k \in 1 .. Len(new) :
                     /\ new[k][4] = Superstep
                     /\ \E e \in AddressedTo(u) :
                           /\ e[1] = new[k][1]
                           /\ Outgoing(e[1])[e[2]] =
                                 <<u, new[k][2], new[k][3], new[k][4]>>
               /\ AddressedTo(u) = {} => new = <<>>

\* C30: the incoming buffer of round t+1 is exactly what was addressed to
\* the vertex in round t.
C30_FreshBuffer == [][C30_ExactBuffer]_vars

\* A round is about to be redistributed in which a vertex without out-edges
\* has been infected by a message it read, and another vertex that read a
\* message in this round is addressed by nobody.
C30_Witness ==
    /\ variant = "epidemic"
    /\ pc = "redistribute"
    /\ Superstep > 0
    /\ Superstep < nsteps
    /\ \E u \in V :
          /\ vertices[u].out_vertices = <<>>
          /\ Incoming(u) # <<>>
          /\ u >= i
          /\ vertices[u].value = 1
    /\ \E w \in V :
          /\ Incoming(w) # <<>>
          /\ AddressedTo(w) = {}

====
